---- MODULE Spec2Model ----
(***************************************************************************)
(* Model of the vocal-remover motor: the SignalHandler object              *)
(* (utils/signal_handler.py), the JSON protocol emitter                    *)
(* (utils/protocol.py) and the pipeline driver with its two supervised     *)
(* child processes (motor.py).                                             *)
(*                                                                         *)
(* Several specifications share the variables:                             *)
(*   HandlerSpec  the SignalHandler object driven by its three callers:    *)
(*                the main thread, OS signal handlers that interrupt the   *)
(*                main thread, and the Windows console-control thread.     *)
(*   Spec         one run of main(), with the environment requesting a     *)
(*                stop at any moment and the child processes writing and   *)
(*                exiting on their own.                                    *)
(*   FairSpec     Spec with the main flow scheduled fairly; the children   *)
(*                are under no obligation to write or to exit.             *)
(*   LoopSpec     the supervision loop of separate_audio alone, from the   *)
(*                launch of Demucs to its exit, over longer outputs.       *)
(*   EmitSpec     calls of Protocol._emit with payloads that do or do not  *)
(*                encode, on an output channel that its reader may close.  *)
(*   StopSpec     request_stop and check_and_report statement by statement *)
(*                on the main thread, in signal handlers and on the        *)
(*                console-control thread.                                  *)
(*   PipeSpec     Spec with pipes of finite capacity between the children  *)
(*                and the supervisor: a write on a full pipe blocks.       *)
(***************************************************************************)
EXTENDS Integers, Sequences, FiniteSets, TLC

VARIABLES
    \* ---- SignalHandler fields (signal_handler.py:37-42)
    should_stop,        \* self._should_stop
    shutdown_reason,    \* self._shutdown_reason ("None" when unset)
    cleanup_callbacks,  \* self._cleanup_callbacks
    lock,               \* owner of self._lock: "free", "main", "sig", "console"
    \* ---- callers of the SignalHandler object (HandlerSpec)
    hcall,              \* the method the main thread is executing
    sigstack,           \* signal-handler frames stacked on the main thread
    ccall,              \* the console-control thread's request_stop call
    first_request,      \* history: the reason of the first request_stop to take the lock
    nstops,             \* request_stop calls made by ordinary code so far
    cleanup_log,        \* history: callbacks invoked, in order
    nsignals,           \* signals delivered so far
    nconsole,           \* console events delivered so far
    nruns,              \* run_cleanup calls started so far
    \* ---- one run of main() (Spec)
    pc,                 \* where the main flow is
    is_video,           \* the input is a video file
    events,             \* the records written to stdout, in order
    current_step,       \* Protocol._current_step
    exit_status,        \* what main returned
    proc,               \* the child process (FFmpeg, then Demucs)
    stderr_pipe,        \* lines the child has written and nobody has read
    stdout_pipe,        \* number of lines the child has written on its stdout (never read)
    written,            \* history: every line the current child has written
    last_progress,      \* separate_audio's last_progress
    temp_dir,           \* the temporary working directory exists
    temp_audio,         \* the audio file extracted from the video exists
    sup_log,            \* history: terminate / wait / kill applied to a child
    token_reads,        \* history: the event counts at which the stop flag was read
    \* ---- the output channel of Protocol._emit (EmitSpec)
    stdout_open,        \* sys.stdout still accepts writes
    emit_calls          \* history: per _emit call, the records written and whether it raised

hvars == <<should_stop, shutdown_reason, cleanup_callbacks, lock, hcall,
           sigstack, ccall, first_request, nstops, cleanup_log, nsignals, nconsole, nruns>>

harness == <<lock, hcall, sigstack, ccall, nstops, nsignals, nconsole>>

stopvars == <<should_stop, shutdown_reason>>

cleanvars == <<cleanup_callbacks, cleanup_log, nruns>>

pvars == <<pc, is_video, events, current_step, exit_status, proc, stderr_pipe,
           written, last_progress, temp_dir, temp_audio, sup_log, token_reads,
           stdout_open, emit_calls, stdout_pipe>>

emitvars == <<stdout_open, emit_calls>>

vars == <<hvars, pvars>>

(***************************************************************************)
(* Bounds of the model.                                                    *)
(***************************************************************************)
MaxCallbacks == 2   \* register_cleanup calls
MaxSignals == 1     \* OS signals delivered
MaxConsole == 1     \* console-control events delivered
MaxRuns == 2        \* run_cleanup calls
MaxStops == 1       \* request_stop calls made by ordinary code
MaxLines == 2       \* lines a child writes on its stderr
MaxLoopLines == 4   \* lines Demucs writes in LoopSpec
MaxEmits == 3       \* _emit calls in EmitSpec
PipeCapacity == 2   \* lines an OS pipe holds before a write blocks (PipeSpec)
MaxPipeLines == 3   \* lines a child writes on its stderr in PipeSpec

CallbackIds == {"cb_a", "cb_b"}

(***************************************************************************)
(* ShutdownReason (signal_handler.py:15-21).                               *)
(***************************************************************************)
ShutdownReason == {"user_cancelled", "sigterm", "sigint", "timeout", "parent_died"}

None == "None"

\* signal numbers the handler is installed for (signal_handler.py:108,115)
Signums == {"SIGINT", "SIGTERM"}

(***************************************************************************)
(* Helpers on sequences.                                                   *)
(***************************************************************************)
Reversed_identity(s) == s

\* list(reversed(self._cleanup_callbacks))
Reversed(s) == [i \in 1..Len(s) |-> s[Len(s) + 1 - i]]

(***************************************************************************)
(* SignalHandler.request_stop, the body under the lock: the new            *)
(* <<_should_stop, _shutdown_reason>>.                                     *)
(***************************************************************************)
request_stop_overwrite(flag, cur, reason) == <<TRUE, reason>>

request_stop(flag, cur, reason) ==
    IF ~flag THEN <<TRUE, reason>> ELSE <<flag, cur>>

\* _handle_signal: the reason chosen for a signal number
handle_signal_reason(signum) ==
    IF signum = "SIGTERM" THEN "sigterm" ELSE "sigint"

\* `except Exception` around a cleanup callback: what it catches
cleanup_catches(outcome) == outcome = "exception"

(***************************************************************************)
(* Text of the child's diagnostic stream.  A line is a sequence of         *)
(* characters ending in a newline; the state holds indices into LineTable. *)
(***************************************************************************)
LineTable ==
    << <<"1", "0", "%", "\n">>,
       <<"5", "0", "%", "\n">>,
       <<"1", "0", "0", "%", "\n">>,
       <<"d", "i", "s", "k", " ", "f", "u", "l", "l", "\n">>,
       <<" ", "x", "7", " ", "9", "%", "|", " ", "\n">>,
       <<" ", "\n">>,
       <<"1", "5", "0", "%", "\n">> >>

LineIds == 1..Len(LineTable)

Whitespace == {" ", "\n", "\t"}

DigitChars == {"0", "1", "2", "3", "4", "5", "6", "7", "8", "9"}

DigitVal(c) ==
    CASE c = "0" -> 0 [] c = "1" -> 1 [] c = "2" -> 2 [] c = "3" -> 3
      [] c = "4" -> 4 [] c = "5" -> 5 [] c = "6" -> 6 [] c = "7" -> 7
      [] c = "8" -> 8 [] c = "9" -> 9

RECURSIVE LStrip(_)
LStrip(s) == IF s # <<>> /\ Head(s) \in Whitespace THEN LStrip(Tail(s)) ELSE s

RECURSIVE RStrip(_)
RStrip(s) ==
    IF s # <<>> /\ s[Len(s)] \in Whitespace THEN RStrip(SubSeq(s, 1, Len(s) - 1)) ELSE s

strip_leading_only(s) == LStrip(s)

\* str.strip()
strip(s) == RStrip(LStrip(s))

\* int() of a run of decimal digits
RECURSIVE ToInt(_)
ToInt(ds) ==
    IF ds = <<>> THEN 0
    ELSE ToInt(SubSeq(ds, 1, Len(ds) - 1)) * 10 + DigitVal(ds[Len(ds)])

\* the end of the run of digits that starts at position i
RECURSIVE DigitRunEnd(_, _)
DigitRunEnd(s, i) ==
    IF i < Len(s) /\ s[i + 1] \in DigitChars THEN DigitRunEnd(s, i + 1) ELSE i

\* re.compile(r'(\d+)%').search(line): the positions where the pattern matches
MatchStarts(s) ==
    {i \in 1..Len(s) :
        /\ s[i] \in DigitChars
        /\ DigitRunEnd(s, i) < Len(s)
        /\ s[DigitRunEnd(s, i) + 1] = "%"}

progress_matches(s) == MatchStarts(s) # {}

\* int(match.group(1)) of the leftmost match
demucs_percent(s) ==
    LET i == CHOOSE k \in MatchStarts(s) : \A m \in MatchStarts(s) : k <= m
    IN  ToInt(SubSeq(s, i, DigitRunEnd(s, i)))

\* int(demucs_percent * 0.90): the double product truncated toward zero,
\* which equals floor(p * 90 / 100) for every p below 100000
visual_percent_ceil(p) == (p * 90 + 99) \div 100

visual_percent(p) == (p * 90) \div 100

\* `if visual_percent > last_progress`
progress_increased_or_equal(v, last) == v >= last

progress_increased(v, last) == v > last

\* stderr_output[:500]
ErrorTextLimit == 500

Truncate(s, n) == SubSeq(s, 1, IF Len(s) < n THEN Len(s) ELSE n)

RECURSIVE Concat(_)
\* the text made of the lines of a pipe, in order
Concat(ids) == IF ids = <<>> THEN <<>> ELSE LineTable[Head(ids)] \o Concat(Tail(ids))

\* error_msg = stderr_output[:500] if stderr_output else "Unknown error";
\* <<>> stands for the literal "Unknown error"
error_msg(unread) ==
    IF Concat(unread) # <<>> THEN Truncate(Concat(unread), ErrorTextLimit) ELSE <<>>

(***************************************************************************)
(* Protocol (protocol.py): the records written to stdout.  -1 stands for   *)
(* an absent number (None), "None" for an absent string.                   *)
(***************************************************************************)
BlankEvent ==
    [event |-> "", timestamp |-> TRUE, step |-> None, stepNumber |-> -1,
     stepPercent |-> -1, globalPercent |-> -1, stepWeight |-> -1, message |-> "", line |-> <<>>,
     code |-> None, fatal |-> FALSE, level |-> None, reason |-> None]

emit_start_as_log == [BlankEvent EXCEPT !.event = "log"]

emit_start == [BlankEvent EXCEPT !.event = "start"]

step_weights_separating_70 ==
    [initializing |-> 2, loading_model |-> 8, extracting_audio |-> 5, analyzing |-> 5,
     separating |-> 70, saving |-> 4, cleanup |-> 1]

\* Protocol._step_weights (protocol.py:50-58), in hundredths
step_weights ==
    [initializing |-> 2, loading_model |-> 8, extracting_audio |-> 5, analyzing |-> 5,
     separating |-> 75, saving |-> 4, cleanup |-> 1]

\* the absent value of a numeric field (Python's None)
NoNumber == -1

\* "stepWeight": self._step_weights.get(step, 0.1); every ProcessingStep is
\* a key of the table
emit_step_change(step, step_number) ==
    [BlankEvent EXCEPT !.event = "step_change", !.step = step, !.stepNumber = step_number,
                       !.stepWeight = step_weights[step]]

\* protocol.py:118: `round(global_percent, 1) if global_percent else None`;
\* an argument of None or 0 is falsy
global_percent_field(global_percent) ==
    IF global_percent = NoNumber \/ global_percent = 0 THEN NoNumber ELSE global_percent

\* every call of motor.py leaves global_percent at its default, None
emit_progress(cur, step_percent, detail) ==
    [BlankEvent EXCEPT !.event = "progress", !.step = cur, !.stepPercent = step_percent,
                       !.globalPercent = global_percent_field(NoNumber),
                       !.message = detail]

emit_log(message, line, level) ==
    [BlankEvent EXCEPT !.event = "log", !.message = message, !.line = line, !.level = level]

emit_warning(message, code) ==
    [BlankEvent EXCEPT !.event = "warning", !.message = message, !.code = code]

emit_error_without_code(message, line, code, fatal) ==
    [BlankEvent EXCEPT !.event = "error", !.message = message, !.line = line,
                       !.fatal = fatal]

emit_error(message, line, code, fatal) ==
    [BlankEvent EXCEPT !.event = "error", !.message = message, !.line = line,
                       !.code = code, !.fatal = fatal]

emit_success == [BlankEvent EXCEPT !.event = "success"]

emit_cancelled(cur, reason) ==
    [BlankEvent EXCEPT !.event = "cancelled", !.reason = reason, !.step = cur]

\* the default of emit_cancelled's reason parameter
DefaultCancelReason == "User requested cancellation"

\* CancellationToken.check_and_report: reason.value if reason else "Unknown"
reported_reason(reason) == IF reason # None THEN reason ELSE "Unknown"

(***************************************************************************)
(* HandlerSpec: the SignalHandler object and its callers.                  *)
(***************************************************************************)
Idle == [op |-> "idle", step |-> "idle", arg |-> None, callbacks |-> <<>>,
         invoked |-> <<>>, raised |-> FALSE]

HandlerInit ==
    /\ should_stop = FALSE
    /\ shutdown_reason = None
    /\ cleanup_callbacks = <<>>
    /\ lock = "free"
    /\ hcall = Idle
    /\ sigstack = <<>>
    /\ ccall = "idle"
    /\ first_request = None
    /\ nstops = 0
    /\ cleanup_log = <<>>
    /\ nsignals = 0
    /\ nconsole = 0
    /\ nruns = 0

\* the main thread executes its own code only when no signal handler frame
\* is stacked on it
MainRuns == sigstack = <<>>

\* the main thread calls one of the methods
HCall ==
    /\ MainRuns
    /\ hcall.op = "idle"
    /\ \/ /\ \E op \in {"should_stop", "shutdown_reason"} :
              hcall' = [Idle EXCEPT !.op = op, !.step = "acquire"]
          /\ UNCHANGED nstops
       \/ /\ nstops < MaxStops
          /\ nstops' = nstops + 1
          /\ \E r \in ShutdownReason :
              hcall' = [Idle EXCEPT !.op = "request_stop", !.step = "acquire", !.arg = r]
       \/ /\ Len(cleanup_callbacks) < MaxCallbacks
          /\ \E cb \in CallbackIds :
              hcall' = [Idle EXCEPT !.op = "register_cleanup", !.step = "acquire", !.arg = cb]
          /\ UNCHANGED nstops
    /\ UNCHANGED <<should_stop, shutdown_reason, cleanup_callbacks, lock,
                   sigstack, ccall, first_request, cleanup_log, nsignals, nconsole, nruns>>
    /\ UNCHANGED pvars

HCallRunCleanup ==
    /\ MainRuns
    /\ hcall.op = "idle"
    /\ nruns < MaxRuns
    /\ nruns' = nruns + 1
    /\ hcall' = [Idle EXCEPT !.op = "run_cleanup", !.step = "acquire"]
    /\ UNCHANGED <<should_stop, shutdown_reason, cleanup_callbacks, lock,
                   sigstack, ccall, first_request, nstops, cleanup_log, nsignals, nconsole>>
    /\ UNCHANGED pvars

\* `with self._lock:` entered by the main thread
HAcquire ==
    /\ MainRuns
    /\ hcall.step = "acquire"
    /\ lock = "free"
    /\ lock' = "main"
    /\ hcall' = [hcall EXCEPT !.step = "locked"]
    /\ first_request' = IF hcall.op = "request_stop" /\ first_request = None
                        THEN hcall.arg ELSE first_request
    /\ UNCHANGED <<should_stop, shutdown_reason, cleanup_callbacks, sigstack,
                   ccall, nstops, cleanup_log, nsignals, nconsole, nruns>>
    /\ UNCHANGED pvars

\* the body of the with-block and the release of the lock on leaving it
HBody ==
    /\ MainRuns
    /\ hcall.step = "locked"
    /\ lock = "main"
    /\ lock' = "free"
    /\ \/ /\ hcall.op \in {"should_stop", "shutdown_reason"}
          /\ hcall' = Idle
          /\ UNCHANGED <<should_stop, shutdown_reason, cleanup_callbacks>>
       \/ /\ hcall.op = "request_stop"
          /\ should_stop' = request_stop(should_stop, shutdown_reason, hcall.arg)[1]
          /\ shutdown_reason' = request_stop(should_stop, shutdown_reason, hcall.arg)[2]
          /\ hcall' = Idle
          /\ UNCHANGED cleanup_callbacks
       \/ /\ hcall.op = "register_cleanup"
          /\ cleanup_callbacks' = Append(cleanup_callbacks, hcall.arg)
          /\ hcall' = Idle
          /\ UNCHANGED <<should_stop, shutdown_reason>>
       \/ /\ hcall.op = "run_cleanup"
          /\ hcall' = [hcall EXCEPT !.step = "loop",
                                    !.callbacks = Reversed(cleanup_callbacks)]
          /\ UNCHANGED <<should_stop, shutdown_reason, cleanup_callbacks>>
    /\ UNCHANGED <<sigstack, ccall, first_request, nstops, cleanup_log, nsignals, nconsole, nruns>>
    /\ UNCHANGED pvars

\* run_cleanup: one iteration of `for callback in callbacks`; the callback
\* returns or raises, and an exception the except clause does not catch
\* leaves run_cleanup
HInvoke ==
    /\ MainRuns
    /\ hcall.op = "run_cleanup"
    /\ hcall.step = "loop"
    /\ hcall.callbacks # <<>>
    /\ \E outcome \in {"ok", "exception"} :
          /\ cleanup_log' = Append(cleanup_log, Head(hcall.callbacks))
          /\ IF outcome = "ok" \/ cleanup_catches(outcome)
             THEN hcall' = [hcall EXCEPT !.callbacks = Tail(@),
                                         !.invoked = Append(@, <<Head(hcall.callbacks), outcome>>)]
             ELSE hcall' = [hcall EXCEPT !.step = "return", !.raised = TRUE,
                                         !.invoked = Append(@, <<Head(hcall.callbacks), outcome>>)]
    /\ UNCHANGED <<should_stop, shutdown_reason, cleanup_callbacks, lock,
                   sigstack, ccall, first_request, nstops, nsignals, nconsole, nruns>>
    /\ UNCHANGED pvars

\* run_cleanup: the loop is exhausted
HLoopEnd ==
    /\ MainRuns
    /\ hcall.op = "run_cleanup"
    /\ hcall.step = "loop"
    /\ hcall.callbacks = <<>>
    /\ hcall' = [hcall EXCEPT !.step = "return"]
    /\ UNCHANGED <<should_stop, shutdown_reason, cleanup_callbacks, lock,
                   sigstack, ccall, first_request, nstops, cleanup_log, nsignals, nconsole, nruns>>
    /\ UNCHANGED pvars

\* run_cleanup returns to its caller
HReturn ==
    /\ MainRuns
    /\ hcall.step = "return"
    /\ hcall' = Idle
    /\ UNCHANGED <<should_stop, shutdown_reason, cleanup_callbacks, lock,
                   sigstack, ccall, first_request, nstops, cleanup_log, nsignals, nconsole, nruns>>
    /\ UNCHANGED pvars

\* an OS signal is delivered: _handle_signal starts on the main thread, on
\* top of whatever the main thread was executing
SignalDeliver ==
    /\ nsignals < MaxSignals
    /\ nsignals' = nsignals + 1
    /\ \E signum \in Signums :
          sigstack' = <<[reason |-> handle_signal_reason(signum), step |-> "acquire"]>>
                      \o sigstack
    /\ UNCHANGED <<should_stop, shutdown_reason, cleanup_callbacks, lock, hcall,
                   ccall, first_request, nstops, cleanup_log, nconsole, nruns>>
    /\ UNCHANGED pvars

\* _handle_signal -> request_stop: `with self._lock:`
SignalAcquire ==
    /\ sigstack # <<>>
    /\ Head(sigstack).step = "acquire"
    /\ lock = "free"
    /\ lock' = "sig"
    /\ sigstack' = <<[Head(sigstack) EXCEPT !.step = "locked"]>> \o Tail(sigstack)
    /\ first_request' = IF first_request = None THEN Head(sigstack).reason
                        ELSE first_request
    /\ UNCHANGED <<should_stop, shutdown_reason, cleanup_callbacks, hcall,
                   ccall, nstops, cleanup_log, nsignals, nconsole, nruns>>
    /\ UNCHANGED pvars

\* _handle_signal -> request_stop: the body, the release, the return
SignalBody ==
    /\ sigstack # <<>>
    /\ Head(sigstack).step = "locked"
    /\ lock' = "free"
    /\ should_stop' = request_stop(should_stop, shutdown_reason, Head(sigstack).reason)[1]
    /\ shutdown_reason' = request_stop(should_stop, shutdown_reason, Head(sigstack).reason)[2]
    /\ sigstack' = Tail(sigstack)
    /\ UNCHANGED <<cleanup_callbacks, hcall, ccall, first_request, nstops, cleanup_log,
                   nsignals, nconsole, nruns>>
    /\ UNCHANGED pvars

\* console_handler (Windows): request_stop(USER_CANCELLED) on its own thread
ConsoleEvent ==
    /\ ccall = "idle"
    /\ nconsole < MaxConsole
    /\ nconsole' = nconsole + 1
    /\ ccall' = "acquire"
    /\ UNCHANGED <<should_stop, shutdown_reason, cleanup_callbacks, lock, hcall,
                   sigstack, first_request, nstops, cleanup_log, nsignals, nruns>>
    /\ UNCHANGED pvars

ConsoleAcquire ==
    /\ ccall = "acquire"
    /\ lock = "free"
    /\ lock' = "console"
    /\ ccall' = "locked"
    /\ first_request' = IF first_request = None THEN "user_cancelled" ELSE first_request
    /\ UNCHANGED <<should_stop, shutdown_reason, cleanup_callbacks, hcall,
                   sigstack, nstops, cleanup_log, nsignals, nconsole, nruns>>
    /\ UNCHANGED pvars

ConsoleBody ==
    /\ ccall = "locked"
    /\ lock' = "free"
    /\ should_stop' = request_stop(should_stop, shutdown_reason, "user_cancelled")[1]
    /\ shutdown_reason' = request_stop(should_stop, shutdown_reason, "user_cancelled")[2]
    /\ ccall' = "idle"
    /\ UNCHANGED <<cleanup_callbacks, hcall, sigstack, first_request, nstops, cleanup_log,
                   nsignals, nconsole, nruns>>
    /\ UNCHANGED pvars

HandlerNext ==
    \/ HCall
    \/ HCallRunCleanup
    \/ HAcquire
    \/ HBody
    \/ HInvoke
    \/ HLoopEnd
    \/ HReturn
    \/ SignalDeliver
    \/ SignalAcquire
    \/ SignalBody
    \/ ConsoleEvent
    \/ ConsoleAcquire
    \/ ConsoleBody


(***************************************************************************)
(* Spec: one run of main() (motor.py:667-802).                             *)
(***************************************************************************)
Running == -1      \* exit_status while main has not returned

NoProc == [kind |-> "none", state |-> "none", returncode |-> 0, output |-> FALSE]

\* the reasons the installed handlers pass (signal_handler.py:91,143)
HandlerReasons == {"sigterm", "sigint", "user_cancelled"}

PipelineInit ==
    /\ pc = "start"
    /\ is_video \in BOOLEAN
    /\ events = <<>>
    /\ current_step = None
    /\ exit_status = Running
    /\ proc = NoProc
    /\ stderr_pipe = <<>>
    /\ stdout_pipe = 0
    /\ written = <<>>
    /\ last_progress = 0
    /\ temp_dir = FALSE
    /\ temp_audio = FALSE
    /\ sup_log = <<>>
    /\ token_reads = {}
    /\ stdout_open = TRUE
    /\ emit_calls = <<>>

Init == HandlerInit /\ PipelineInit

\* the child has not been killed and has not exited: it runs, or it is
\* blocked in a write on a full pipe
Alive(p) == p.state \in {"running", "blocked_stdout", "blocked_stderr"}

\* subprocess.Popen succeeded: a fresh child with empty pipes
Launched(kind) == [kind |-> kind, state |-> "running", returncode |-> 0, output |-> FALSE]

\* main returns `code` after writing the events `evs`
Return(code, evs) ==
    /\ events' = evs
    /\ exit_status' = code
    /\ pc' = "done"

\* SignalHandler.run_cleanup as main calls it; the only callback ever
\* registered is cleanup_temp, which removes the temporary directory
RunCleanup ==
    /\ nruns' = nruns + 1
    /\ cleanup_log' = cleanup_log \o Reversed(cleanup_callbacks)
    /\ temp_dir' = IF cleanup_callbacks # <<>> THEN FALSE ELSE temp_dir

RaiseCancelled_cleanup_logs(evs, cur) ==
    /\ Return(6, Append(evs, emit_cancelled(cur, DefaultCancelReason))
                  \o <<emit_log("Cleanup done", <<>>, "debug")>>)
    /\ RunCleanup

\* CancelledException raised inside separate_audio's try block: its handler
\* calls cleanup_temp and re-raises (653-655); main's handler emits
\* Cancelled with the default reason, runs the cleanup registry and
\* returns 6 (786-789)
RaiseCancelled(evs, cur) ==
    /\ Return(6, Append(evs, emit_cancelled(cur, DefaultCancelReason)))
    /\ RunCleanup

\* `except Exception` of separate_audio (657-660), then main's handling of
\* the None result (760-768)
SeparationFailed(evs, message) ==
    /\ Return(5, Append(evs, emit_error(message, <<>>, "SEPARATION_ERROR", TRUE)))
    /\ temp_dir' = FALSE
    /\ temp_audio' = FALSE

\* main 684-691: parse and validate the arguments
Validate ==
    /\ pc = "start"
    /\ \E v \in {"ok", "not_found", "unsupported", "no_output_dir"} :
          IF v = "ok"
          THEN /\ pc' = "init"
               /\ UNCHANGED <<events, exit_status>>
          ELSE \* "not found" occurs in the first message only
               Return(IF v = "not_found" THEN 3 ELSE 2,
                      Append(events, emit_error(v, <<>>, "INVALID_ARGS", TRUE)))
    /\ UNCHANGED <<is_video, current_step, proc, stderr_pipe, written,
                   last_progress, temp_dir, temp_audio, sup_log>>
    /\ UNCHANGED token_reads
    /\ UNCHANGED stdout_pipe
    /\ UNCHANGED <<harness, stopvars, first_request, cleanvars, emitvars>>

\* main 693-711: detect the device, emit Start, enter INITIALIZING
Initialize ==
    /\ pc = "init"
    /\ \E device \in {"cpu", "cuda"} :
          \* detect_device logs the GPU it finds
          LET pre == IF device = "cuda"
                     THEN Append(events, emit_log("GPU detected", <<>>, "info"))
                     ELSE events
          IN  events' = pre \o <<emit_start,
                                  emit_step_change("initializing", 1),
                                  emit_progress("initializing", 50, "Validating input file...")>>
    /\ current_step' = "initializing"
    /\ pc' = "check_init"
    /\ UNCHANGED <<is_video, exit_status, proc, stderr_pipe, written,
                   last_progress, temp_dir, temp_audio, sup_log>>
    /\ UNCHANGED token_reads
    /\ UNCHANGED stdout_pipe
    /\ UNCHANGED <<harness, stopvars, first_request, cleanvars, emitvars>>

after_init_always_extract(video) == "extract"

\* main 717-721: `if is_video:` guards the Extract stage
after_init(video) == IF video THEN "extract" ELSE "separate_enter"

\* main 713-719: check_and_report after INITIALIZING
CheckInit ==
    /\ pc = "check_init"
    /\ IF should_stop
       THEN Return(6, Append(events, emit_cancelled(current_step, reported_reason(shutdown_reason))))
       ELSE /\ pc' = after_init(is_video)
            /\ UNCHANGED <<events, exit_status>>
    /\ UNCHANGED <<is_video, current_step, proc, stderr_pipe, written,
                   last_progress, temp_dir, temp_audio, sup_log>>
    /\ token_reads' = token_reads \cup {Len(events)}
    /\ UNCHANGED stdout_pipe
    /\ UNCHANGED <<harness, stopvars, first_request, cleanvars, emitvars>>

\* main 721-735 and extract_audio_from_video 261-297: enter EXTRACTING_AUDIO,
\* find FFmpeg and launch it
ExtractStart ==
    /\ pc = "extract"
    /\ current_step' = "extracting_audio"
    /\ LET evs == events \o <<emit_step_change("extracting_audio", 2),
                              emit_progress("extracting_audio", 0, "Extracting audio from video...")>>
       IN \/ \* no FFmpeg binary: emit_error, return False, main returns 5
             /\ Return(5, Append(evs, emit_error("FFmpeg not found", <<>>, "FFMPEG_NOT_FOUND", TRUE)))
             /\ UNCHANGED <<proc, stderr_pipe, stdout_pipe, written, temp_audio>>
          \/ \* Popen raises
             /\ Return(5, evs \o <<emit_log("Using FFmpeg", <<>>, "info"),
                                   emit_error("FFmpeg execution error", <<>>, "FFMPEG_EXEC_ERROR", TRUE)>>)
             /\ UNCHANGED <<proc, stderr_pipe, stdout_pipe, written, temp_audio>>
          \/ /\ events' = Append(evs, emit_log("Using FFmpeg", <<>>, "info"))
             /\ proc' = Launched("ffmpeg")
             /\ stderr_pipe' = <<>>
             /\ stdout_pipe' = 0
             /\ written' = <<>>
             /\ temp_audio' = TRUE
             /\ pc' = "extract_poll"
             /\ UNCHANGED exit_status
    /\ UNCHANGED <<is_video, last_progress, temp_dir, sup_log>>
    /\ UNCHANGED token_reads
    /\ UNCHANGED <<harness, stopvars, first_request, cleanvars, emitvars>>

\* extract_audio_from_video 300-308: one turn of `while process.poll() is None`
ExtractPoll ==
    /\ pc = "extract_poll"
    /\ IF proc.state = "exited"
       THEN /\ pc' = "extract_result"
            /\ UNCHANGED sup_log
       ELSE IF should_stop
       THEN \* process.terminate()
            /\ sup_log' = Append(sup_log, "terminate")
            /\ pc' = "extract_wait"
       ELSE \* time.sleep(0.1)
            /\ pc' = "extract_poll"
            /\ UNCHANGED sup_log
    /\ UNCHANGED <<is_video, events, current_step, exit_status, proc, stderr_pipe,
                   written, last_progress, temp_dir, temp_audio>>
    /\ token_reads' = IF proc.state = "exited" THEN token_reads
                                                ELSE token_reads \cup {Len(events)}
    /\ UNCHANGED stdout_pipe
    /\ UNCHANGED <<harness, stopvars, first_request, cleanvars, emitvars>>

\* extract_audio_from_video 303-307 and main 737-738: wait up to 5 s, kill on
\* timeout, return False; main returns 5
ExtractWait ==
    /\ pc = "extract_wait"
    /\ IF proc.state = "exited"
       THEN /\ sup_log' = Append(sup_log, "wait_exited")
            /\ UNCHANGED proc
       ELSE /\ sup_log' = sup_log \o <<"wait_timeout", "kill">>
            /\ proc' = [proc EXCEPT !.state = "killed"]
    /\ Return(5, events)
    /\ UNCHANGED <<is_video, current_step, stderr_pipe, written, last_progress,
                   temp_dir, temp_audio>>
    /\ UNCHANGED token_reads
    /\ UNCHANGED stdout_pipe
    /\ UNCHANGED <<harness, stopvars, first_request, cleanvars, emitvars>>

\* extract_audio_from_video 310-315 and main 737-744: the exit code of
\* FFmpeg, then check_and_report
ExtractResult ==
    /\ pc = "extract_result"
    /\ IF proc.returncode # 0
       THEN Return(5, Append(events, emit_error("FFmpeg failed", Truncate(Concat(stderr_pipe), 200),
                                                "FFMPEG_ERROR", TRUE)))
       ELSE IF should_stop
       THEN Return(6, Append(events, emit_cancelled(current_step, reported_reason(shutdown_reason))))
       ELSE /\ events' = Append(events, emit_progress(current_step, 100, "Audio extracted successfully"))
            /\ pc' = "separate_enter"
            /\ UNCHANGED exit_status
    \* the Popen object and its pipes go away with the function's frame
    /\ proc' = NoProc
    /\ stderr_pipe' = <<>>
    /\ stdout_pipe' = 0
    /\ written' = <<>>
    /\ UNCHANGED <<is_video, current_step, last_progress, temp_dir, temp_audio, sup_log>>
    /\ token_reads' = IF proc.returncode # 0 THEN token_reads
                                              ELSE token_reads \cup {Len(events)}
    /\ UNCHANGED <<harness, stopvars, first_request, cleanvars, emitvars>>

\* separate_audio 445-468: create the temporary directory and register its
\* cleanup; a failing makedirs is outside the try block and reaches main's
\* `except Exception` (796-802)
SeparateEnter ==
    /\ pc = "separate_enter"
    /\ \/ /\ Return(1, Append(events, emit_error("Unexpected error", <<>>, "UNEXPECTED_ERROR", TRUE)))
          /\ UNCHANGED <<temp_dir, cleanup_callbacks>>
       \/ /\ temp_dir' = TRUE
          /\ cleanup_callbacks' = Append(cleanup_callbacks, "cleanup_temp")
          /\ pc' = "load_model"
          /\ UNCHANGED <<events, exit_status>>
    /\ UNCHANGED <<is_video, current_step, proc, stderr_pipe, written,
                   last_progress, temp_audio, sup_log>>
    /\ UNCHANGED token_reads
    /\ UNCHANGED stdout_pipe
    /\ UNCHANGED <<harness, stopvars, first_request, cleanup_log, nruns, emitvars>>

\* separate_audio 471-477: enter LOADING_MODEL, check the token
LoadModel ==
    /\ pc = "load_model"
    /\ current_step' = "loading_model"
    /\ LET evs == events \o <<emit_step_change("loading_model", 2),
                              emit_progress("loading_model", 0, "Loading neural network weights...")>>
       IN IF should_stop
          THEN RaiseCancelled(evs, "loading_model")
          ELSE /\ events' = evs
               /\ pc' = "analyze"
               /\ UNCHANGED <<exit_status, temp_dir, cleanup_log, nruns>>
    /\ UNCHANGED <<is_video, proc, stderr_pipe, written, last_progress,
                   temp_audio, sup_log>>
    /\ token_reads' = token_reads \cup {Len(events) + 2}
    /\ UNCHANGED stdout_pipe
    /\ UNCHANGED <<harness, stopvars, first_request, cleanup_callbacks, emitvars>>

\* separate_audio 479-511: build the command, enter ANALYZING, check the token
Analyze ==
    /\ pc = "analyze"
    /\ current_step' = "analyzing"
    /\ LET evs == events \o <<emit_progress("loading_model", 50, "Model configuration ready"),
                              emit_step_change("analyzing", 3),
                              emit_progress("analyzing", 0, "Analyzing audio structure...")>>
       IN IF should_stop
          THEN RaiseCancelled(evs, "analyzing")
          ELSE /\ events' = evs
               /\ pc' = "separate"
               /\ UNCHANGED <<exit_status, temp_dir, cleanup_log, nruns>>
    /\ UNCHANGED <<is_video, proc, stderr_pipe, written, last_progress,
                   temp_audio, sup_log>>
    /\ token_reads' = token_reads \cup {Len(events) + 3}
    /\ UNCHANGED stdout_pipe
    /\ UNCHANGED <<harness, stopvars, first_request, cleanup_callbacks, emitvars>>

\* separate_audio 513-533: enter SEPARATING and launch Demucs
SeparateStart ==
    /\ pc = "separate"
    /\ current_step' = "separating"
    /\ LET evs == events \o <<emit_step_change("separating", 4),
                              emit_progress("separating", 0, "Separating...")>>
       IN \/ \* Popen raises
             /\ SeparationFailed(evs, "Separation failed")
             /\ UNCHANGED <<proc, stderr_pipe, stdout_pipe, written, last_progress>>
          \/ /\ events' = evs
             /\ proc' = Launched("demucs")
             /\ stderr_pipe' = <<>>
             /\ stdout_pipe' = 0
             /\ written' = <<>>
             /\ last_progress' = 0
             /\ pc' = "sup_check"
             /\ UNCHANGED <<exit_status, temp_dir, temp_audio>>
    /\ UNCHANGED <<is_video, sup_log>>
    /\ UNCHANGED token_reads
    /\ UNCHANGED <<harness, stopvars, first_request, cleanvars, emitvars>>

\* separate_audio 535-538: the cancellation check at the top of the loop;
\* on cancellation a debug log and process.kill()
SupCheck ==
    /\ pc = "sup_check"
    /\ IF should_stop
       THEN /\ events' = Append(events, emit_log("Cancellation requested", <<>>, "debug"))
            /\ sup_log' = Append(sup_log, "kill")
            /\ proc' = IF Alive(proc) THEN [proc EXCEPT !.state = "killed"] ELSE proc
            /\ pc' = "sup_wait"
       ELSE /\ pc' = "sup_read"
            /\ UNCHANGED <<events, sup_log, proc>>
    /\ UNCHANGED <<is_video, current_step, exit_status, stderr_pipe, written,
                   last_progress, temp_dir, temp_audio>>
    /\ token_reads' = token_reads \cup {Len(events)}
    /\ UNCHANGED stdout_pipe
    /\ UNCHANGED <<harness, stopvars, first_request, cleanvars, emitvars>>

\* separate_audio 539-543: process.wait(timeout=5), a timeout is ignored;
\* then CancelledException
SupWait ==
    /\ pc = "sup_wait"
    /\ sup_log' = Append(sup_log, IF proc.state = "exited" THEN "wait_exited" ELSE "wait_timeout")
    /\ RaiseCancelled(events, current_step)
    /\ UNCHANGED <<is_video, current_step, proc, stderr_pipe, written,
                   last_progress, temp_audio>>
    /\ UNCHANGED token_reads
    /\ UNCHANGED stdout_pipe
    /\ UNCHANGED <<harness, stopvars, first_request, cleanup_callbacks, emitvars>>

\* what separate_audio 552-568 emits for one line read from the pipe
LineEvents(line, last) ==
    IF progress_matches(strip(line))
    THEN IF progress_increased(visual_percent(demucs_percent(strip(line))), last)
         THEN <<emit_progress("separating", visual_percent(demucs_percent(strip(line))),
                            "Processing")>>
         ELSE <<>>
    ELSE IF strip(line) # <<>>
         THEN <<emit_log("", strip(line), "debug")>>
         ELSE <<>>

\* last_progress after the line
LineProgress(line, last) ==
    IF /\ progress_matches(strip(line))
       /\ progress_increased(visual_percent(demucs_percent(strip(line))), last)
    THEN visual_percent(demucs_percent(strip(line)))
    ELSE last

\* separate_audio 545-568: process.stderr.readline() blocks until the child
\* has written a line or has closed the stream by exiting
SupRead ==
    /\ pc = "sup_read"
    /\ \/ \* a line is available
          /\ stderr_pipe # <<>>
          /\ stderr_pipe' = Tail(stderr_pipe)
          /\ \/ /\ events' = events \o LineEvents(LineTable[Head(stderr_pipe)], last_progress)
                /\ last_progress' = LineProgress(LineTable[Head(stderr_pipe)], last_progress)
                /\ pc' = "sup_check"
                /\ UNCHANGED <<exit_status, temp_dir, temp_audio>>
             \/ \* the bytes do not decode: readline raises inside the try block
                /\ SeparationFailed(events, "Separation failed")
                /\ UNCHANGED last_progress
       \/ \* end of file and the process has exited: break
          /\ stderr_pipe = <<>>
          /\ proc.state = "exited"
          /\ pc' = "sup_exit"
          /\ UNCHANGED <<events, exit_status, stderr_pipe, last_progress, temp_dir, temp_audio>>
    /\ UNCHANGED <<is_video, current_step, proc, written, sup_log>>
    /\ UNCHANGED token_reads
    /\ UNCHANGED stdout_pipe
    /\ UNCHANGED <<harness, stopvars, first_request, cleanvars, emitvars>>

\* separate_audio 570-587: the exit code; on failure the error event built
\* from what is left on the stream, and main returns 5 (760-768); on success
\* progress 95 and the check of the token
SupExit ==
    /\ pc = "sup_exit"
    /\ IF proc.returncode # 0
       THEN /\ Return(5, Append(events, emit_error("Demucs process failed", error_msg(stderr_pipe),
                                                   "DEMUCS_ERROR", TRUE)))
            /\ temp_audio' = FALSE
            /\ UNCHANGED <<temp_dir, cleanup_log, nruns>>
       ELSE LET evs == Append(events, emit_progress(current_step, 95, "Reconstructing audio & Saving..."))
            IN IF should_stop
               THEN /\ RaiseCancelled(evs, current_step)
                    /\ UNCHANGED temp_audio
               ELSE /\ events' = evs
                    /\ pc' = "save"
                    /\ UNCHANGED <<exit_status, temp_dir, temp_audio, cleanup_log, nruns>>
    /\ stderr_pipe' = <<>>
    /\ UNCHANGED <<is_video, current_step, proc, written, last_progress, sup_log>>
    /\ token_reads' = IF proc.returncode # 0 THEN token_reads
                                              ELSE token_reads \cup {Len(events) + 1}
    /\ UNCHANGED stdout_pipe
    /\ UNCHANGED <<harness, stopvars, first_request, cleanup_callbacks, emitvars>>

\* separate_audio 589-651: enter SAVING, move the output, mix, enter CLEANUP
Save ==
    /\ pc = "save"
    /\ LET evs == events \o <<emit_step_change("saving", 5), emit_progress("saving", 97, "Organizing output files...")>>
           mixing == <<emit_progress("saving", 99, "Mixing instrumental track..."),
                       emit_log("Mixing bass, drums, and other into instrumental track", <<>>, "info")>>
           mixed == <<emit_log("Loaded stem for mixing", <<>>, "debug"),
                      emit_log("Instrumental track saved", <<>>, "debug"),
                      emit_log("Instrumental track created successfully", <<>>, "info")>>
           notmixed == <<emit_error("No stems found to mix", <<>>, "NO_STEMS", TRUE),
                         emit_warning("Failed to mix instrumental track, keeping all stems", "MIX_WARNING")>>
           closing == <<emit_progress("saving", 100, "Files saved successfully"), emit_step_change("cleanup", 6)>>
       IN \/ \* the output directory of Demucs is missing: return None (596-601)
             /\ ~proc.output
             /\ Return(5, Append(evs, emit_error("Demucs did not produce expected output", <<>>,
                                                 "OUTPUT_MISSING", TRUE)))
             /\ current_step' = "saving"
             /\ temp_audio' = FALSE
             /\ UNCHANGED temp_dir
          \/ \* shutil.move raises
             /\ proc.output
             /\ SeparationFailed(Append(evs, emit_progress("saving", 98, "Moving files...")), "Separation failed")
             /\ current_step' = "saving"
          \/ \* the files are moved; processing_mode and the result of the mix
             /\ proc.output
             /\ \E tail \in {<<>>, mixing \o mixed, mixing \o notmixed} :
                   events' = evs \o <<emit_progress("saving", 98, "Moving files...")>> \o tail \o closing
             /\ current_step' = "cleanup"
             /\ temp_dir' = FALSE
             /\ pc' = "finish"
             /\ UNCHANGED <<exit_status, temp_audio>>
    /\ UNCHANGED <<is_video, proc, stderr_pipe, written, last_progress, sup_log>>
    /\ UNCHANGED token_reads
    /\ UNCHANGED stdout_pipe
    /\ UNCHANGED <<harness, stopvars, first_request, cleanvars, emitvars>>

\* main 759-784: remove the extracted audio, check_and_report, emit Success
Finish ==
    /\ pc = "finish"
    /\ temp_audio' = FALSE
    /\ IF should_stop
       THEN Return(6, Append(events, emit_cancelled(current_step, reported_reason(shutdown_reason))))
       ELSE Return(0, Append(events, emit_success))
    /\ UNCHANGED <<is_video, current_step, proc, stderr_pipe, written,
                   last_progress, temp_dir, sup_log>>
    /\ token_reads' = token_reads \cup {Len(events)}
    /\ UNCHANGED stdout_pipe
    /\ UNCHANGED <<harness, stopvars, first_request, cleanvars, emitvars>>

\* the steps of the main flow
MainStep ==
    \/ Validate
    \/ Initialize
    \/ CheckInit
    \/ ExtractStart
    \/ ExtractPoll
    \/ ExtractWait
    \/ ExtractResult
    \/ SeparateEnter
    \/ LoadModel
    \/ Analyze
    \/ SeparateStart
    \/ SupCheck
    \/ SupWait
    \/ SupRead
    \/ SupExit
    \/ Save
    \/ Finish

\* a signal or console event reaches the process while main runs:
\* _handle_signal / console_handler call request_stop
RequestStop ==
    /\ exit_status = Running
    /\ \E r \in HandlerReasons :
          /\ should_stop' = request_stop(should_stop, shutdown_reason, r)[1]
          /\ shutdown_reason' = request_stop(should_stop, shutdown_reason, r)[2]
          /\ first_request' = IF first_request = None THEN r ELSE first_request
    /\ UNCHANGED <<harness, cleanvars, pvars>>

\* the child writes one line on its stderr
ChildWrite ==
    /\ exit_status = Running
    /\ proc.state = "running"
    /\ Len(written) < MaxLines
    /\ \E l \in LineIds :
          /\ stderr_pipe' = Append(stderr_pipe, l)
          /\ written' = Append(written, l)
    /\ UNCHANGED <<pc, is_video, events, current_step, exit_status, proc,
                   last_progress, temp_dir, temp_audio, sup_log>>
    /\ UNCHANGED token_reads
    /\ UNCHANGED stdout_pipe
    /\ UNCHANGED <<harness, stopvars, first_request, cleanvars, emitvars>>

\* whether Demucs has left its output directory behind (motor.py:593-596);
\* extract_audio_from_video never looks at what FFmpeg wrote
ExitOutputs(kind) == IF kind = "demucs" THEN BOOLEAN ELSE {FALSE}

\* the child exits on its own
ChildExit ==
    /\ exit_status = Running
    /\ proc.state = "running"
    /\ \E code \in {0, 1}, out \in ExitOutputs(proc.kind) :
          \* the output is looked for only after an exit code of 0
          /\ code # 0 => ~out
          /\ proc' = [proc EXCEPT !.state = "exited", !.returncode = code, !.output = out]
    /\ UNCHANGED <<pc, is_video, events, current_step, exit_status, stderr_pipe,
                   written, last_progress, temp_dir, temp_audio, sup_log>>
    /\ UNCHANGED token_reads
    /\ UNCHANGED stdout_pipe
    /\ UNCHANGED <<harness, stopvars, first_request, cleanvars, emitvars>>

\* a killed child dies
ChildDie ==
    /\ proc.state = "killed"
    /\ proc' = [proc EXCEPT !.state = "exited", !.returncode = -9]
    /\ UNCHANGED <<pc, is_video, events, current_step, exit_status, stderr_pipe,
                   written, last_progress, temp_dir, temp_audio, sup_log>>
    /\ UNCHANGED token_reads
    /\ UNCHANGED stdout_pipe
    /\ UNCHANGED <<harness, stopvars, first_request, cleanvars, emitvars>>

Next ==
    \/ MainStep
    \/ RequestStop
    \/ ChildWrite
    \/ ChildExit
    \/ ChildDie

Spec == Init /\ [][Next]_vars

\* the interpreter keeps running the main flow, and a killed process dies;
\* nothing obliges the child to write or to exit
FairSpec == Spec /\ WF_vars(MainStep) /\ WF_vars(ChildDie)

HandlerSpec == Init /\ [][HandlerNext]_vars

(***************************************************************************)
(* LoopSpec: the supervision loop alone.  It starts in the state of an     *)
(* audio run that has just launched Demucs with no stop requested.         *)
(***************************************************************************)
LoopInit ==
    /\ should_stop = FALSE
    /\ shutdown_reason = None
    /\ cleanup_callbacks = <<"cleanup_temp">>
    /\ lock = "free"
    /\ hcall = Idle
    /\ sigstack = <<>>
    /\ ccall = "idle"
    /\ first_request = None
    /\ nstops = 0
    /\ cleanup_log = <<>>
    /\ nsignals = 0
    /\ nconsole = 0
    /\ nruns = 0
    /\ pc = "separate"
    /\ is_video = FALSE
    /\ events = <<emit_start,
                  emit_step_change("initializing", 1),
                  emit_progress("initializing", 50, "Validating input file..."),
                  emit_step_change("loading_model", 2),
                  emit_progress("loading_model", 0, "Loading neural network weights..."),
                  emit_progress("loading_model", 50, "Model configuration ready"),
                  emit_step_change("analyzing", 3),
                  emit_progress("analyzing", 0, "Analyzing audio structure...")>>
    /\ current_step = "analyzing"
    /\ exit_status = Running
    /\ proc = NoProc
    /\ stderr_pipe = <<>>
    /\ stdout_pipe = 0
    /\ written = <<>>
    /\ last_progress = 0
    /\ temp_dir = TRUE
    /\ temp_audio = FALSE
    /\ sup_log = <<>>
    /\ token_reads = {3, 5, 8}
    /\ stdout_open = TRUE
    /\ emit_calls = <<>>

\* Demucs writes one more line on its stderr
LoopWrite ==
    /\ exit_status = Running
    /\ proc.state = "running"
    /\ Len(written) < MaxLoopLines
    /\ \E l \in LineIds :
          /\ stderr_pipe' = Append(stderr_pipe, l)
          /\ written' = Append(written, l)
    /\ UNCHANGED <<pc, is_video, events, current_step, exit_status, proc,
                   last_progress, temp_dir, temp_audio, sup_log>>
    /\ UNCHANGED token_reads
    /\ UNCHANGED stdout_pipe
    /\ UNCHANGED <<harness, stopvars, first_request, cleanvars, emitvars>>

LoopNext ==
    \/ SeparateStart
    \/ LoopWrite
    \/ ChildExit
    \/ SupCheck
    \/ SupRead
    \/ SupExit

LoopSpec == LoopInit /\ [][LoopNext]_vars

(***************************************************************************)
(* EmitSpec: Protocol._emit (protocol.py:60-78) called with one payload of *)
(* each event kind.                                                        *)
(***************************************************************************)
\* EventType (protocol.py:15-24)
EventKinds == {"start", "progress", "step_change", "log", "warning", "error",
               "success", "cancelled"}

\* one message of each kind, as the emit_* methods build them
Payloads ==
    {emit_start,
     emit_step_change("initializing", 1),
     emit_progress("initializing", 50, "Validating input file..."),
     emit_log("GPU detected", <<>>, "info"),
     emit_warning("Failed to mix instrumental track, keeping all stems", "MIX_WARNING"),
     emit_error("Demucs process failed", <<>>, "DEMUCS_ERROR", TRUE),
     emit_success,
     emit_cancelled("separating", DefaultCancelReason)}

\* protocol.py:77: {"event": "error", "message": "Protocol error: ..."};
\* the record has no timestamp key
fallback ==
    [BlankEvent EXCEPT !.event = "error", !.timestamp = FALSE, !.message = "Protocol error"]

\* Protocol._emit.  `encodable`: json.dumps(message) and the encoding of the
\* text for the stream succeed.  `open`: print(..., flush=True) can write to
\* sys.stdout.  The first print is inside `try`; the handler of
\* `except Exception` prints the fallback with no protection of its own, so
\* on a channel that rejects writes the second print raises out of _emit.
emit(message, encodable, open) ==
    IF encodable /\ open
    THEN [out |-> <<message>>, raised |-> FALSE]
    ELSE IF open
    THEN [out |-> <<fallback>>, raised |-> FALSE]
    ELSE [out |-> <<>>, raised |-> TRUE]

\* one call of _emit
Emit ==
    /\ Len(emit_calls) < MaxEmits
    /\ \E message \in Payloads, encodable \in BOOLEAN :
          /\ events' = events \o emit(message, encodable, stdout_open).out
          /\ emit_calls' = Append(emit_calls,
                                  [written |-> Len(emit(message, encodable, stdout_open).out),
                                   raised |-> emit(message, encodable, stdout_open).raised])
    /\ UNCHANGED <<pc, is_video, current_step, exit_status, proc, stderr_pipe, written,
                   last_progress, temp_dir, temp_audio, sup_log, token_reads, stdout_open>>
    /\ UNCHANGED stdout_pipe
    /\ UNCHANGED hvars

\* the process reading the channel goes away: later writes fail with
\* BrokenPipeError / OSError
ReaderCloses ==
    /\ stdout_open
    /\ stdout_open' = FALSE
    /\ UNCHANGED <<pc, is_video, events, current_step, exit_status, proc, stderr_pipe,
                   written, last_progress, temp_dir, temp_audio, sup_log, token_reads,
                   emit_calls>>
    /\ UNCHANGED stdout_pipe
    /\ UNCHANGED hvars

EmitNext ==
    \/ Emit
    \/ ReaderCloses

EmitSpec == Init /\ [][EmitNext]_vars

(***************************************************************************)
(* StopSpec: request_stop (signal_handler.py:56-66) one statement at a     *)
(* time, against CancellationToken.check_and_report (211-223), which reads *)
(* the flag and then the reason through the two locked properties (44-54). *)
(***************************************************************************)
lock_free_ignored(l) == TRUE

\* `with self._lock:` is entered only when nobody holds the lock
lock_free(l) == l = "free"

\* the main thread calls check_and_report
CheckCall ==
    /\ MainRuns
    /\ hcall.op \in {"idle", "reported"}
    /\ hcall' = [Idle EXCEPT !.op = "check_and_report", !.step = "read_flag"]
    /\ UNCHANGED <<should_stop, shutdown_reason, lock, sigstack, ccall, nstops,
                   nsignals, nconsole, first_request, cleanup_callbacks, cleanup_log, nruns>>
    /\ UNCHANGED pvars

\* is_cancelled -> should_stop: take the lock, read the flag, release;
\* check_and_report returns False when the flag is not set
ReadFlag ==
    /\ MainRuns
    /\ hcall.op = "check_and_report"
    /\ hcall.step = "read_flag"
    /\ lock_free(lock)
    /\ hcall' = IF should_stop THEN [hcall EXCEPT !.step = "read_reason"] ELSE Idle
    /\ UNCHANGED <<should_stop, shutdown_reason, lock, sigstack, ccall, nstops,
                   nsignals, nconsole, first_request, cleanup_callbacks, cleanup_log, nruns>>
    /\ UNCHANGED pvars

\* reason = self._handler.shutdown_reason: take the lock, read, release;
\* the value read goes into the Cancelled event
ReadReason ==
    /\ MainRuns
    /\ hcall.op = "check_and_report"
    /\ hcall.step = "read_reason"
    /\ lock_free(lock)
    /\ hcall' = [Idle EXCEPT !.op = "reported", !.arg = shutdown_reason]
    /\ UNCHANGED <<should_stop, shutdown_reason, lock, sigstack, ccall, nstops,
                   nsignals, nconsole, first_request, cleanup_callbacks, cleanup_log, nruns>>
    /\ UNCHANGED pvars

\* ordinary code on the main thread calls request_stop
StopCall ==
    /\ MainRuns
    /\ hcall.op \in {"idle", "reported"}
    /\ nstops < MaxStops
    /\ nstops' = nstops + 1
    /\ \E r \in ShutdownReason :
          hcall' = [Idle EXCEPT !.op = "request_stop", !.step = "acquire", !.arg = r]
    /\ UNCHANGED <<should_stop, shutdown_reason, lock, sigstack, ccall,
                   nsignals, nconsole, first_request, cleanup_callbacks, cleanup_log, nruns>>
    /\ UNCHANGED pvars

\* request_stop on the main thread: `with self._lock:`
StopAcquire ==
    /\ MainRuns
    /\ hcall.op = "request_stop"
    /\ hcall.step = "acquire"
    /\ lock_free(lock)
    /\ lock' = "main"
    /\ hcall' = [hcall EXCEPT !.step = "test"]
    /\ UNCHANGED <<should_stop, shutdown_reason, sigstack, ccall, nstops,
                   nsignals, nconsole, first_request, cleanup_callbacks, cleanup_log, nruns>>
    /\ UNCHANGED pvars

\* `if not self._should_stop:` and `self._should_stop = True`; when the
\* flag is set already the with-block ends and the lock is released
StopTest ==
    /\ MainRuns
    /\ hcall.op = "request_stop"
    /\ hcall.step = "test"
    /\ IF ~should_stop
       THEN /\ should_stop' = TRUE
            /\ hcall' = [hcall EXCEPT !.step = "set_reason"]
            /\ UNCHANGED lock
       ELSE /\ hcall' = Idle
            /\ lock' = "free"
            /\ UNCHANGED should_stop
    /\ UNCHANGED <<shutdown_reason, sigstack, ccall, nstops, nsignals, nconsole, first_request, cleanup_callbacks, cleanup_log, nruns>>
    /\ UNCHANGED pvars

\* `self._shutdown_reason = reason`, then the lock is released
StopSetReason ==
    /\ MainRuns
    /\ hcall.op = "request_stop"
    /\ hcall.step = "set_reason"
    /\ shutdown_reason' = hcall.arg
    /\ lock' = "free"
    /\ hcall' = Idle
    /\ UNCHANGED <<should_stop, sigstack, ccall, nstops, nsignals, nconsole, first_request, cleanup_callbacks, cleanup_log, nruns>>
    /\ UNCHANGED pvars

\* the same three statements in a signal handler frame
SigStopAcquire ==
    /\ sigstack # <<>>
    /\ Head(sigstack).step = "acquire"
    /\ lock_free(lock)
    /\ lock' = "sig"
    /\ sigstack' = <<[Head(sigstack) EXCEPT !.step = "test"]>> \o Tail(sigstack)
    /\ UNCHANGED <<should_stop, shutdown_reason, hcall, ccall, nstops,
                   nsignals, nconsole, first_request, cleanup_callbacks, cleanup_log, nruns>>
    /\ UNCHANGED pvars

SigStopTest ==
    /\ sigstack # <<>>
    /\ Head(sigstack).step = "test"
    /\ IF ~should_stop
       THEN /\ should_stop' = TRUE
            /\ sigstack' = <<[Head(sigstack) EXCEPT !.step = "set_reason"]>> \o Tail(sigstack)
            /\ UNCHANGED lock
       ELSE /\ sigstack' = Tail(sigstack)
            /\ lock' = "free"
            /\ UNCHANGED should_stop
    /\ UNCHANGED <<shutdown_reason, hcall, ccall, nstops, nsignals, nconsole, first_request, cleanup_callbacks, cleanup_log, nruns>>
    /\ UNCHANGED pvars

SigStopSetReason ==
    /\ sigstack # <<>>
    /\ Head(sigstack).step = "set_reason"
    /\ shutdown_reason' = Head(sigstack).reason
    /\ lock' = "free"
    /\ sigstack' = Tail(sigstack)
    /\ UNCHANGED <<should_stop, hcall, ccall, nstops, nsignals, nconsole, first_request, cleanup_callbacks, cleanup_log, nruns>>
    /\ UNCHANGED pvars

\* and on the console-control thread
ConStopAcquire ==
    /\ ccall = "acquire"
    /\ lock_free(lock)
    /\ lock' = "console"
    /\ ccall' = "test"
    /\ UNCHANGED <<should_stop, shutdown_reason, hcall, sigstack, nstops,
                   nsignals, nconsole, first_request, cleanup_callbacks, cleanup_log, nruns>>
    /\ UNCHANGED pvars

ConStopTest ==
    /\ ccall = "test"
    /\ IF ~should_stop
       THEN /\ should_stop' = TRUE
            /\ ccall' = "set_reason"
            /\ UNCHANGED lock
       ELSE /\ ccall' = "idle"
            /\ lock' = "free"
            /\ UNCHANGED should_stop
    /\ UNCHANGED <<shutdown_reason, hcall, sigstack, nstops, nsignals, nconsole, first_request, cleanup_callbacks, cleanup_log, nruns>>
    /\ UNCHANGED pvars

ConStopSetReason ==
    /\ ccall = "set_reason"
    /\ shutdown_reason' = "user_cancelled"
    /\ lock' = "free"
    /\ ccall' = "idle"
    /\ UNCHANGED <<should_stop, hcall, sigstack, nstops, nsignals, nconsole, first_request, cleanup_callbacks, cleanup_log, nruns>>
    /\ UNCHANGED pvars

StopNext ==
    \/ CheckCall
    \/ ReadFlag
    \/ ReadReason
    \/ StopCall
    \/ StopAcquire
    \/ StopTest
    \/ StopSetReason
    \/ SignalDeliver
    \/ SigStopAcquire
    \/ SigStopTest
    \/ SigStopSetReason
    \/ ConsoleEvent
    \/ ConStopAcquire
    \/ ConStopTest
    \/ ConStopSetReason

StopSpec == Init /\ [][StopNext]_vars

(***************************************************************************)
(* PipeSpec: both children are launched with stdout=subprocess.PIPE and    *)
(* stderr=subprocess.PIPE (motor.py:291-296, 519-526).  Nothing ever reads *)
(* process.stdout; process.stderr of FFmpeg is read only after it has      *)
(* exited (311), that of Demucs line by line in the loop (546).            *)
(***************************************************************************)
\* what the child writes on stderr here: a progress line and a plain line
PipeLineIds == {1, 4}

\* the child writes one line on its stderr, at once or after having been
\* blocked until a reader made room; the pipe has room for it
PipeWriteStderr ==
    /\ exit_status = Running
    /\ proc.state \in {"running", "blocked_stderr"}
    /\ Len(written) < MaxPipeLines
    /\ Len(stderr_pipe) < PipeCapacity
    /\ \E l \in PipeLineIds :
          /\ stderr_pipe' = Append(stderr_pipe, l)
          /\ written' = Append(written, l)
    /\ proc' = [proc EXCEPT !.state = "running"]
    /\ UNCHANGED <<pc, is_video, events, current_step, exit_status, stdout_pipe,
                   last_progress, temp_dir, temp_audio, sup_log, token_reads>>
    /\ UNCHANGED <<hvars, emitvars>>

\* the child writes one line on its stdout; the pipe has room for it
ChildWriteStdout ==
    /\ exit_status = Running
    /\ proc.state = "running"
    /\ stdout_pipe < PipeCapacity
    /\ stdout_pipe' = stdout_pipe + 1
    /\ UNCHANGED <<pc, is_video, events, current_step, exit_status, proc, stderr_pipe,
                   written, last_progress, temp_dir, temp_audio, sup_log, token_reads>>
    /\ UNCHANGED <<hvars, emitvars>>

\* the child writes on a full pipe: write() blocks until a reader makes room
ChildBlocks ==
    /\ exit_status = Running
    /\ proc.state = "running"
    /\ \/ /\ stdout_pipe = PipeCapacity
          /\ proc' = [proc EXCEPT !.state = "blocked_stdout"]
       \/ /\ Len(stderr_pipe) = PipeCapacity
          /\ Len(written) < MaxPipeLines
          /\ proc' = [proc EXCEPT !.state = "blocked_stderr"]
    /\ UNCHANGED <<pc, is_video, events, current_step, exit_status, stderr_pipe, stdout_pipe,
                   written, last_progress, temp_dir, temp_audio, sup_log, token_reads>>
    /\ UNCHANGED <<hvars, emitvars>>

PipeNext ==
    \/ MainStep
    \/ RequestStop
    \/ PipeWriteStderr
    \/ ChildWriteStdout
    \/ ChildBlocks
    \/ ChildExit
    \/ ChildDie

PipeSpec == Init /\ [][PipeNext]_vars

(***************************************************************************)
(* Properties of the SignalHandler object (HandlerSpec).                   *)
(***************************************************************************)

\* C1: once should_stop is true it stays true, and shutdown_reason is and
\* stays the reason of the first request_stop call, whatever reason later
\* calls pass and whoever makes them.
C1_StopStickyFirstReason ==
    [][/\ should_stop => (should_stop' /\ shutdown_reason' = shutdown_reason)
       /\ should_stop' => shutdown_reason' = first_request']_vars

\* C1 witness: ordinary code, a signal handler and the console thread have
\* each completed a request_stop, with at least two different reasons.
C1_Witness ==
    /\ should_stop
    /\ nstops = 1 /\ nsignals = 1 /\ nconsole = 1
    /\ hcall = Idle /\ sigstack = <<>> /\ ccall = "idle"
    /\ shutdown_reason # "user_cancelled"

C5_RunCleanupIdempotent ==
    Len(cleanup_log) <= Len(cleanup_callbacks)

\* C6: a signal handler never waits for a lock that is held by the main
\* flow it interrupted (or by a handler frame below it), so the main flow
\* always continues after a signal.
C6_SignalNeverDeadlocks ==
    ~(/\ sigstack # <<>>
      /\ Head(sigstack).step = "acquire"
      /\ lock \in {"main", "sig"})

(***************************************************************************)
(* Properties of one run of main() (Spec, FairSpec).                       *)
(***************************************************************************)
InSupervisionLoop == pc \in {"sup_check", "sup_read"}

\* C2: a stop requested while Demucs runs is observed without the child's
\* help: with the main flow scheduled fairly, and the child free to stay
\* alive and silent, the supervisor always leaves its loop and main returns.
C2_CancelNotStarved ==
    (should_stop /\ InSupervisionLoop /\ proc.state = "running") ~> (pc = "done")

\* C3: whenever main has returned, run_cleanup has been called exactly once.
C3_CleanupOncePerExit ==
    pc = "done" => nruns = 1

\* C7: the error reported for a failed Demucs process carries the text the
\* child wrote on its error stream, cut to its first 500 characters.
C7_ErrorCarriesDiagnostics ==
    \A i \in DOMAIN events :
        events[i].code = "DEMUCS_ERROR" =>
            events[i].line = Truncate(Concat(written), ErrorTextLimit)

\* a check of the token found it set: the child was terminated or killed
\* for it, or a Cancelled event was written
CancellationObserved ==
    \/ \E i \in DOMAIN sup_log : sup_log[i] \in {"terminate", "kill"}
    \/ \E i \in DOMAIN events : events[i].event = "cancelled"

\* C8: a run in which cancellation was observed, in whatever stage, ends
\* with a Cancelled event as its last record and exit status 6.
C8_ObservedCancelEndsCancelled ==
    (pc = "done" /\ CancellationObserved) =>
        /\ exit_status = 6
        /\ events # <<>>
        /\ events[Len(events)].event = "cancelled"

\* C9: a child is force-killed only after a terminate signal and a wait of
\* the grace period that timed out.
C9_TerminateWaitThenKill ==
    \A i \in DOMAIN sup_log :
        sup_log[i] = "kill" =>
            /\ i > 2
            /\ sup_log[i - 2] = "terminate"
            /\ sup_log[i - 1] = "wait_timeout"

\* the progress events the supervision loop emitted from child output
LoopProgress ==
    SelectSeq(events, LAMBDA e : e.event = "progress" /\ e.message = "Processing")

\* C10: the progress values the supervision loop emits are strictly
\* increasing, starting above 0.
C10_LoopProgressIncreasing ==
    \A i \in DOMAIN LoopProgress :
        /\ LoopProgress[i].stepPercent > 0
        /\ \A j \in DOMAIN LoopProgress :
              i < j => LoopProgress[i].stepPercent < LoopProgress[j].stepPercent

\* C10 witness: the loop has read two percentage lines, both emitted.
C10_Witness ==
    /\ Len(LoopProgress) = 2
    /\ Len(written) = 2
    /\ stderr_pipe = <<>>

(***************************************************************************)
(* Properties of the supervision loop (LoopSpec).                          *)
(***************************************************************************)

\* C11: whatever number the child prints before a percent sign, the value
\* the supervision loop emits lies in the reserved range 0..90, below the
\* checkpoints 95, 97, 98, 99, 100 emitted afterwards.
C11_LoopProgressInReservedRange ==
    \A i \in DOMAIN LoopProgress :
        /\ LoopProgress[i].stepPercent >= 0
        /\ LoopProgress[i].stepPercent <= 90

\* the number each line of LineTable shows before its first "digits%", or
\* -1 when the line shows none
PrintedPercent == <<10, 50, 100, -1, 9, -1, 150>>

\* the lines the loop has read and processed so far
Consumed == SubSeq(written, 1, Len(written) - Len(stderr_pipe))

RECURSIVE ExpectedEmitted(_, _)
\* floor(p * 90 / 100) for each printed p, kept when it exceeds every value
\* kept before it, starting from `last`
ExpectedEmitted(ids, last) ==
    IF ids = <<>> THEN <<>>
    ELSE LET p == PrintedPercent[Head(ids)]
             v == (p * 90) \div 100
         IN  IF p >= 0 /\ v > last
             THEN <<v>> \o ExpectedEmitted(Tail(ids), v)
             ELSE ExpectedEmitted(Tail(ids), last)

\* C12: while the loop runs and after it ends normally, the progress values
\* it has emitted are exactly the values floor(p * 90 / 100) of the lines
\* read that exceed every value emitted before them, in order.
C12_LoopProgressExact ==
    pc \in {"sup_check", "sup_read", "sup_exit", "save"} =>
        [i \in DOMAIN LoopProgress |-> LoopProgress[i].stepPercent]
            = ExpectedEmitted(Consumed, 0)

\* C12 witness: the child printed 10%, 50%, 50%, 100%, all read; the loop
\* emitted 9, 45, 90.
C12_Witness ==
    /\ pc = "sup_check"
    /\ written = <<1, 2, 2, 3>>
    /\ stderr_pipe = <<>>
    /\ Len(LoopProgress) = 3
    /\ LoopProgress[1].stepPercent = 9
    /\ LoopProgress[2].stepPercent = 45
    /\ LoopProgress[3].stepPercent = 90

(***************************************************************************)
(* Properties of the exit status and of the stages (Spec).                 *)
(***************************************************************************)

\* C13: when main has returned, its exit status follows the table: 2 for a
\* missing input, 3 for an invalid invocation, 5 for a child or processing
\* failure, 6 for cancellation, 1 for an unclassified fault, 0 for success.
C13_ExitStatusTable ==
    (pc = "done" /\ events # <<>>) =>
        LET e == events[Len(events)]
        IN  /\ (e.code = "INVALID_ARGS" /\ e.message = "not_found") => exit_status = 2
            /\ (e.code = "INVALID_ARGS" /\ e.message # "not_found") => exit_status = 3
            /\ e.code \in {"FFMPEG_NOT_FOUND", "FFMPEG_EXEC_ERROR", "FFMPEG_ERROR",
                           "DEMUCS_ERROR", "OUTPUT_MISSING", "SEPARATION_ERROR"}
                  => exit_status = 5
            /\ e.event = "cancelled" => exit_status = 6
            /\ e.code = "UNEXPECTED_ERROR" => exit_status = 1
            /\ e.event = "success" => exit_status = 0

\* the positions in `events` of the stage-change events
StepChanges == {i \in DOMAIN events : events[i].event = "step_change"}

\* C14: between any two consecutive stage-change events of a run the stop
\* flag is read at least once (a read at count c falls after event c and
\* before event c + 1).
C14_FlagReadAtEveryBoundary ==
    \A i, j \in StepChanges :
        (i < j /\ ~(\E k \in StepChanges : i < k /\ k < j))
            => \E c \in token_reads : i <= c /\ c < j

\* C15: the ordinals carried by successive stage-change events of a run are
\* strictly increasing.
C15_StepNumbersIncrease ==
    \A i, j \in StepChanges :
        i < j => events[i].stepNumber < events[j].stepNumber

\* the order of the stages that the property declares, written with the
\* values of ProcessingStep (protocol.py:27-35)
StageOrder(video) ==
    IF video
    THEN <<"initializing", "extracting_audio", "loading_model", "analyzing",
           "separating", "saving", "cleanup">>
    ELSE <<"initializing", "loading_model", "analyzing", "separating", "saving", "cleanup">>

IsStepChange(e) == e.event = "step_change"

\* the stages announced so far, in order
AnnouncedStages ==
    [i \in 1..Len(SelectSeq(events, IsStepChange)) |-> SelectSeq(events, IsStepChange)[i].step]

\* C16: the announced stages are a prefix of the declared order, and a
\* Success event is written only after Cleanup has been announced.
C16_StagesArePrefixOfOrder ==
    /\ Len(AnnouncedStages) <= Len(StageOrder(is_video))
    /\ \A i \in DOMAIN AnnouncedStages : AnnouncedStages[i] = StageOrder(is_video)[i]
    /\ (\E i \in DOMAIN events : events[i].event = "success")
          => AnnouncedStages = StageOrder(is_video)

\* a successful run of each kind of input has announced every stage
C16_Witness ==
    /\ pc = "done"
    /\ exit_status = 0
    /\ is_video
    /\ events[Len(events)].event = "success"
    /\ AnnouncedStages = StageOrder(TRUE)

\* the stages announced by the first i events
StagesUpTo(i) ==
    [k \in 1..Len(SelectSeq(SubSeq(events, 1, i), IsStepChange))
        |-> SelectSeq(SubSeq(events, 1, i), IsStepChange)[k].step]

RECURSIVE WeightSum(_, _)
\* the sum of the weights of the first n stages of st
WeightSum(st, n) == IF n = 0 THEN 0 ELSE step_weights[st[n]] + WeightSum(st, n - 1)

\* 100 times the global percentage the property gives event i: the weights
\* (in hundredths) of the completed stages times 100, plus the weight of
\* the current stage times the stage-relative percentage
ExpectedGlobalTimes100(i) ==
    LET st == StagesUpTo(i)
    IN  100 * WeightSum(st, Len(st) - 1) + step_weights[st[Len(st)]] * events[i].stepPercent

\* C17: every progress event carries the global percentage computed from
\* the stage weights and its stage-relative percentage.
C17_GlobalPercentComputed ==
    \A i \in DOMAIN events :
        events[i].event = "progress"
            => /\ events[i].globalPercent # NoNumber
               /\ 100 * events[i].globalPercent = ExpectedGlobalTimes100(i)

(***************************************************************************)
(* Properties of Protocol._emit (EmitSpec).                                *)
(***************************************************************************)

\* C18: every record written to the output channel has an event field
\* holding one of the 8 event kinds and a timestamp field.
C18_RecordsHaveEventAndTimestamp ==
    \A i \in DOMAIN events :
        /\ events[i].event \in EventKinds
        /\ events[i].timestamp

\* C19: every call of _emit writes exactly one record and returns normally.
C19_EmitWritesOneRecordAndReturns ==
    \A i \in DOMAIN emit_calls :
        /\ emit_calls[i].written = 1
        /\ ~emit_calls[i].raised

\* C19 restricted to a channel that accepts writes, where only the encoding
\* can fail
EmitOnOpenChannel ==
    stdout_open => C19_EmitWritesOneRecordAndReturns

(***************************************************************************)
(* Properties of the pipes between the children and the supervisor         *)
(* (PipeSpec).                                                             *)
(***************************************************************************)

\* the supervisor waits for the child to write or to exit: readline on an
\* empty stderr in separate_audio, the poll loop in extract_audio_from_video
SupervisorWaits ==
    \/ pc = "sup_read" /\ stderr_pipe = <<>>
    \/ pc = "extract_poll"

\* the child is blocked writing to a pipe that the supervisor does not read
\* where it is: stdout always, stderr during the poll loop of FFmpeg
BlockedOnUndrainedPipe ==
    \/ proc.state = "blocked_stdout"
    \/ proc.state = "blocked_stderr" /\ pc = "extract_poll"

\* C20: with no cancellation requested, the child is never blocked writing
\* to a full pipe that the supervisor does not drain while the supervisor
\* waits for the child to write or to exit.
C20_NoWaitOnBlockedChild ==
    ~(~should_stop /\ SupervisorWaits /\ BlockedOnUndrainedPipe)

(***************************************************************************)
(* Properties of the outcome of a run (Spec).                              *)
(***************************************************************************)

\* main is about to look at a failed child: the exit code of FFmpeg
\* (motor.py:310), the exit code of Demucs (571), the output directory
\* that Demucs should have left (596)
ChildFailureSeen ==
    \/ pc = "extract_result" /\ proc.returncode # 0
    \/ pc = "sup_exit" /\ proc.returncode # 0
    \/ pc = "save" /\ ~proc.output

HasSuccess(evs) == \E i \in DOMAIN evs : evs[i].event = "success"

\* C21: when the child has exited with a non-zero status or its output is
\* missing, and no cancellation was requested, the step of main that sees
\* it emits an Error event with a machine code, emits no Success, leaves
\* no child running and returns 5.
C21_ChildFailureReported ==
    [][(ChildFailureSeen /\ ~should_stop /\ pc' # pc)
          => /\ pc' = "done"
             /\ exit_status' = 5
             /\ Len(events') = Len(events) + IF pc = "save" THEN 3 ELSE 1
             /\ events'[Len(events')].event = "error"
             /\ events'[Len(events')].code # None
             /\ ~HasSuccess(events')
             /\ ~Alive(proc')]_vars

\* each kind of failure has been reported
C21_Witness ==
    /\ pc = "done"
    /\ exit_status = 5
    /\ ~should_stop
    /\ events[Len(events)].code = "OUTPUT_MISSING"
    /\ proc.returncode = 0
    /\ ~proc.output

RECURSIVE CarriedWeight(_)
\* the sum of the stepWeight fields of the stage-change events of evs
CarriedWeight(evs) ==
    IF evs = <<>> THEN 0
    ELSE (IF Head(evs).event = "step_change" THEN Head(evs).stepWeight ELSE 0)
         + CarriedWeight(Tail(evs))

\* C22: the weights of the stage-weight table, over all stages, sum to 100
\* hundredths, and each lies between 0 and 100 hundredths.
C22_WeightsSumToOne ==
    /\ DOMAIN step_weights = {StageOrder(TRUE)[i] : i \in DOMAIN StageOrder(TRUE)}
    /\ WeightSum(StageOrder(TRUE), Len(StageOrder(TRUE))) = 100
    /\ \A st \in DOMAIN step_weights : step_weights[st] >= 0 /\ step_weights[st] <= 100
    \* and so do the weights that a run through all the stages has emitted
    /\ Len(AnnouncedStages) = Len(StageOrder(TRUE)) => CarriedWeight(events) = 100

\* a run of a video input has announced all seven stages, and the weights
\* its stage-change events carried add up to the whole
C22_Witness ==
    /\ is_video
    /\ Len(AnnouncedStages) = 7
    /\ CarriedWeight(events) = 100

(***************************************************************************)
(* Properties of the cancellation state (StopSpec).                        *)
(***************************************************************************)

\* C23: the flag and the reason are set together for every reader: when
\* nobody is inside a with-block, should_stop is true if and only if
\* shutdown_reason is set, and a check_and_report that has read the flag as
\* true has then read a reason.
C23_FlagAndReasonTogether ==
    /\ lock = "free" => (should_stop <=> shutdown_reason # None)
    /\ hcall.op = "reported" => hcall.arg # None

\* a check_and_report has reported the reason of the console thread's
\* request while a signal handler had asked for a stop as well
C23_Witness ==
    /\ hcall.op = "reported"
    /\ hcall.arg = "user_cancelled"
    /\ nconsole = 1
    /\ nsignals = 1

(***************************************************************************)
(* Properties of the terminal events and of the artifacts (Spec).          *)
(***************************************************************************)

\* C24: the reason carried by a Cancelled event is the reason recorded by
\* the first request_stop, whichever checkpoint observed the cancellation.
C24_CancelledCarriesRecordedReason ==
    \A i \in DOMAIN events :
        events[i].event = "cancelled" => events[i].reason = first_request

\* C25: when main has returned, whatever the outcome, neither the temporary
\* working directory nor the audio file extracted from a video remains.
C25_NoTemporaryArtifactRemains ==
    pc = "done" => (~temp_dir /\ ~temp_audio)

\* where the main flow is inside a supervising function, between the
\* launch of a child and the function's return or raise
Supervising ==
    pc \in {"extract_poll", "extract_wait", "extract_result",
            "sup_check", "sup_wait", "sup_read", "sup_exit"}

\* C26: once the supervising function has returned or raised, for whatever
\* reason, the child it launched is no longer running.
C26_NoChildOutlivesSupervision ==
    ~Supervising => ~Alive(proc)

IsTerminal(e) == e.event \in {"success", "cancelled"}

\* C27: a Success or Cancelled event is the last event of its run, so a run
\* has at most one of them and nothing is emitted after it.
C27_TerminalEventIsLast ==
    \A i \in DOMAIN events : IsTerminal(events[i]) => i = Len(events)

\* a run cancelled inside the separation stage has ended with its
\* Cancelled event
C27_Witness ==
    /\ pc = "done"
    /\ exit_status = 6
    /\ events[Len(events)].event = "cancelled"
    /\ events[Len(events)].step = "separating"
    /\ nruns = 1

\* C28: an Error event with fatal = true is terminal: a run that has
\* emitted one emits no Success event and does not return 0.
C28_FatalErrorIsTerminal ==
    (\E i \in DOMAIN events : events[i].event = "error" /\ events[i].fatal)
        => (~HasSuccess(events) /\ exit_status # 0)

HasEvent(kind) == \E i \in DOMAIN events : events[i].event = kind

\* C29: the exit status agrees with the events of the run: 0 exactly when
\* Success was emitted, 6 exactly when Cancelled was emitted, and 1 or 5
\* only after at least one Error event.
C29_StatusAgreesWithEvents ==
    pc = "done" =>
        /\ exit_status = 0 <=> HasEvent("success")
        /\ exit_status = 6 <=> HasEvent("cancelled")
        /\ exit_status \in {1, 5} => HasEvent("error")

(***************************************************************************)
(* Properties of the forwarding of diagnostic lines (LoopSpec).            *)
(***************************************************************************)

\* the Log events written by the loop for lines of the stream: they carry
\* the text of the line
IsLineLog(e) == e.event = "log" /\ e.message = ""

LineLogs == SelectSeq(events, IsLineLog)

\* each line of LineTable as the child wrote it, without its terminator
PrintedText ==
    << <<"1", "0", "%">>,
       <<"5", "0", "%">>,
       <<"1", "0", "0", "%">>,
       <<"d", "i", "s", "k", " ", "f", "u", "l", "l">>,
       <<" ", "x", "7", " ", "9", "%", "|", " ">>,
       <<" ">>,
       <<"1", "5", "0", "%">> >>

\* each line of LineTable without the blanks around it; empty for a line
\* of blanks
VisibleText ==
    << <<"1", "0", "%">>,
       <<"5", "0", "%">>,
       <<"1", "0", "0", "%">>,
       <<"d", "i", "s", "k", " ", "f", "u", "l", "l">>,
       <<"x", "7", " ", "9", "%", "|">>,
       <<>>,
       <<"1", "5", "0", "%">> >>

RECURSIVE ExpectedVerbatimLogs(_)
\* one entry, the text as written, for each line that shows no percentage
ExpectedVerbatimLogs(ids) ==
    IF ids = <<>> THEN <<>>
    ELSE (IF PrintedPercent[Head(ids)] = -1 THEN <<PrintedText[Head(ids)]>> ELSE <<>>)
         \o ExpectedVerbatimLogs(Tail(ids))

RECURSIVE ExpectedStrippedLogs(_)
\* one entry, the text without the blanks around it, for each line that
\* shows no percentage and is not made of blanks only
ExpectedStrippedLogs(ids) ==
    IF ids = <<>> THEN <<>>
    ELSE (IF PrintedPercent[Head(ids)] = -1 /\ VisibleText[Head(ids)] # <<>>
          THEN <<VisibleText[Head(ids)]>> ELSE <<>>)
         \o ExpectedStrippedLogs(Tail(ids))

\* C30 as stated: each line read that does not match the percentage
\* pattern has produced exactly one debug Log event carrying the line as
\* written, in order, and the matching lines have produced none.
C30_UnmatchedLinesForwardedVerbatim ==
    pc \in {"sup_check", "sup_read", "sup_exit", "save"} =>
        /\ [i \in DOMAIN LineLogs |-> LineLogs[i].line] = ExpectedVerbatimLogs(Consumed)
        /\ \A i \in DOMAIN LineLogs : LineLogs[i].level = "debug"

\* C30 amended: each line read that does not match the pattern and is not
\* blank has produced exactly one debug Log event carrying the line
\* without its surrounding whitespace, in order; blank lines and matching
\* lines have produced none.
C30_UnmatchedLinesForwardedStripped ==
    pc \in {"sup_check", "sup_read", "sup_exit", "save"} =>
        /\ [i \in DOMAIN LineLogs |-> LineLogs[i].line] = ExpectedStrippedLogs(Consumed)
        /\ \A i \in DOMAIN LineLogs : LineLogs[i].level = "debug"

\* the child wrote a plain line, a blank line, a percentage and the plain
\* line again; all were read and two Log events were written
C30_Witness ==
    /\ pc = "sup_check"
    /\ written = <<4, 6, 1, 4>>
    /\ stderr_pipe = <<>>
    /\ Len(LineLogs) = 2
    /\ LineLogs[1].line = VisibleText[4]

(***************************************************************************)
(* Properties of the Start event (Spec).                                   *)
(***************************************************************************)

\* the positions of the Start events among the first n events
StartsBefore(n) == {j \in 1..n : events[j].event = "start"}

\* C31: every StepChange, Progress and Success event has exactly one Start
\* event before it, and a run emits Start at most once.
C31_OneStartBeforeStages ==
    /\ Cardinality(StartsBefore(Len(events))) <= 1
    /\ \A i \in DOMAIN events :
          events[i].event \in {"step_change", "progress", "success"}
              => Cardinality(StartsBefore(i - 1)) = 1

\* a successful run of an audio input on a GPU: the log of detect_device,
\* then Start, then the stages up to Success
C31_Witness ==
    /\ pc = "done"
    /\ ~is_video
    /\ exit_status = 0
    /\ events[1].event = "log"
    /\ events[2].event = "start"
    /\ events[3].event = "step_change"
    /\ events[Len(events)].event = "success"

====
